---- MODULE Spec2Model ----
(***************************************************************************)
(* A model of the image generators of AlgorithmicArt:                      *)
(*   generators/genutils.py             ShapeConverter, ColorClass,        *)
(*                                      sort_colorlist, Point, PointArray  *)
(*   generators/nearcolors.py           _generate (greedy placement)       *)
(*   generators/randomwalk.py           _generate (random-walk placement)  *)
(*   generators/randomwalk_animation.py randomwalk (self-crossing walk)    *)
(*                                                                         *)
(* A ColorClass object is an entity id 1..K; rgb maps it to its triple.    *)
(* A Python list is the sequence of the ids it holds.  None is 0.          *)
(***************************************************************************)
EXTENDS Integers, Sequences, FiniteSets

VARIABLES
    alg,            \* the entry point that is running
    converter,      \* ShapeConverter: [WIDTH, HEIGHT, N]
    nbrhood_type,   \* NBRHOOD: "ALL" or "CROSS"
    pointlist,      \* PointArray.pointlist: index -> [coords, nbrs, color]
    rgb,            \* the ColorClass objects: id -> (r, g, b)
    given,          \* what the caller's list held when the call began
    callerlist,     \* the list object the caller passed in: what it holds now
    locallist,      \* the list object created inside the call (if any)
    colorlist_ref,  \* the object the local name colorlist is bound to
    p0,             \* current point
    c0,             \* seed / reference colour
    filled,         \* set of coloured indices
    unfilled,       \* set of uncoloured indices (random walk)
    boundary_list,  \* greedy: ordered boundary
    boundary_set,   \* greedy: the boundary as a set
    shuffle_colors, \* animation: the shuffle_colors argument
    maxiters,       \* animation: maxiters, <<>> for None and <<n>> for n
    iters,          \* animation: loop counter
    frames,         \* animation: len(frames)
    ptindex,        \* mapper: the index given / returned
    coords,         \* mapper: the coords given / returned
    pc,             \* position in the running function
    err             \* the exception that ended the run ("" when none)

vars == <<alg, converter, nbrhood_type, pointlist, rgb, given, callerlist, locallist,
          colorlist_ref, p0, c0, filled, unfilled, boundary_list, boundary_set,
          shuffle_colors, maxiters, iters, frames, ptindex, coords, pc, err>>

-----------------------------------------------------------------------------
(* Bounds of the model.                                                    *)

\* the grid on its own is built up to MaxWidth x MaxHeight
MaxWidth == 3

MaxHeight == 3

\* the placement runs use the grids of at most MaxPoints points that are at
\* most MaxPlaceHeight high and at most MaxGreedyWidth (greedy) or
\* MaxWalkWidth (random walk) wide
MaxGreedyWidth == 5

MaxWalkWidth == 4

MaxPlaceHeight == 2

MaxPoints == 6

\* sort_colorlist is applied to lists of up to MaxSortLen colours
MaxSortLen == 3

\* the (r, g, b) values the colours are drawn from
Palette == <<  <<0, 0, 0>>, <<8, 0, 0>>, <<8, 8, 0>>  >>

None == 0

-----------------------------------------------------------------------------
(* Generic helpers.                                                        *)

Max2(a, b) == IF a > b THEN a ELSE b

Min2(a, b) == IF a < b THEN a ELSE b

SetMin(S) == CHOOSE m \in S : \A x \in S : m <= x

Range(s) == {s[k] : k \in 1..Len(s)}

\* Python range(lo, hi) as a sequence
PyRange(lo, hi) == [k \in 1..Max2(hi - lo, 0) |-> lo + k - 1]

\* s without its first n elements: n times list.pop(0)
Drop(s, n) == [k \in 1..(Len(s) - n) |-> s[k + n]]

\* list comprehension [x for x in s if x in S]
RECURSIVE Filter(_, _)
Filter(s, S) ==
    IF s = <<>> THEN <<>>
    ELSE (IF Head(s) \in S THEN <<Head(s)>> ELSE <<>>) \o Filter(Tail(s), S)

\* The orders in which iterating a Python set can yield its elements: the
\* language leaves the order of a set unspecified.
RECURSIVE SetOrders(_)
SetOrders(S) ==
    IF S = {} THEN {<<>>}
    ELSE UNION {{<<x>> \o s : s \in SetOrders(S \ {x})} : x \in S}

-----------------------------------------------------------------------------
(* genutils.py: ShapeConverter.                                            *)

ShapeConverter(w, h) == [WIDTH |-> w, HEIGHT |-> h, N |-> w * h]

index_to_coords_raises(conv, i) == (i < 0) \/ (i >= conv.N)

\* row = floor(ptindex / WIDTH); col = ptindex - row * WIDTH
index_to_coords(conv, i) ==
    LET row == i \div conv.WIDTH
        col == i - row * conv.WIDTH
    IN  <<col, row>>

coords_to_index_raises(conv, c) ==
    \/ (c[1] < 0) \/ (c[1] >= conv.WIDTH)
    \/ (c[2] < 0) \/ (c[2] >= conv.HEIGHT)

coords_to_index_wrong(conv, c) == (c[2] * conv.HEIGHT) + c[1]

coords_to_index(conv, c) == (c[2] * conv.WIDTH) + c[1]

-----------------------------------------------------------------------------
(* genutils.py: Point and PointArray.                                      *)

\* the clipped window range(max(v-n, 0), min(v+n+1, limit)) with n = 1
nbr_range_short(v, limit) == PyRange(Max2(v - 1, 0), Min2(v + 1, limit))

nbr_range(v, limit) == PyRange(Max2(v - 1, 0), Min2(v + 1 + 1, limit))

\* the nested loops of the ALL branch: xi outer, yi inner
RECURSIVE all_pairs(_, _, _, _)
all_pairs(xr, yr, i, j) ==
    IF i > Len(xr) THEN <<>>
    ELSE IF j > Len(yr) THEN all_pairs(xr, yr, i + 1, 1)
    ELSE <<  <<xr[i], yr[j]>>  >> \o all_pairs(xr, yr, i, j + 1)

\* [coords_to_index(c) for c in cs if coords_to_index(c) != index]
RECURSIVE nbrs_of_coords(_, _, _)
nbrs_of_coords(conv, cs, index) ==
    IF cs = <<>> THEN <<>>
    ELSE LET pix == coords_to_index(conv, Head(cs))
         IN  (IF pix # index THEN <<pix>> ELSE <<>>)
                 \o nbrs_of_coords(conv, Tail(cs), index)

get_nbrs(conv, index, type) ==
    LET xy == index_to_coords(conv, index)
        x == xy[1]
        y == xy[2]
        xrange == nbr_range(x, conv.WIDTH)
        yrange == nbr_range(y, conv.HEIGHT)
    IN  IF type = "ALL"
        THEN nbrs_of_coords(conv, all_pairs(xrange, yrange, 1, 1), index)
        ELSE nbrs_of_coords(conv, [k \in 1..Len(xrange) |-> <<xrange[k], y>>], index)
                 \o nbrs_of_coords(conv, [k \in 1..Len(yrange) |-> <<x, yrange[k]>>], index)

Point(conv, index, type) ==
    [coords |-> index_to_coords(conv, index),
     nbrs   |-> get_nbrs(conv, index, type),
     color  |-> None]

PointArray(conv, type) == [i \in 0..(conv.N - 1) |-> Point(conv, i, type)]

aspoint(index) == pointlist[index]

blanks == {p \in DOMAIN pointlist : pointlist[p].color = None}

-----------------------------------------------------------------------------
(* genutils.py: ColorClass and sort_colorlist.                             *)

\* The square of ColorClass.get_distance.  The code takes np.sqrt of this
\* integer (at most 3 * 255^2); the square root is strictly increasing and
\* keeps distinct integers of that size distinct in a double, so every
\* comparison of two distances is the comparison of their squares.
get_distance(self, color) ==
    LET d1 == rgb[self][1] - rgb[color][1]
        d2 == rgb[self][2] - rgb[color][2]
        d3 == rgb[self][3] - rgb[color][3]
    IN  d1 * d1 + d2 * d2 + d3 * d3

\* the number of times x occurs in s
Count(s, x) == Cardinality({k \in 1..Len(s) : s[k] = x})

\* One occurrence of x removed from s (the first).
RemoveOne(s, x) ==
    LET k == SetMin({j \in 1..Len(s) : s[j] = x})
    IN  [j \in 1..(Len(s) - 1) |-> IF j < k THEN s[j] ELSE s[j + 1]]

\* The orders a list of colours at one and the same distance can come out
\* in: np.argsort's default kind is quicksort, which is not stable, so among
\* equal distances any index order can come out.  (A list that holds one
\* object only, however often, reads the same in every order.)
RECURSIVE tie_orders(_)
tie_orders(sub) ==
    IF Cardinality(Range(sub)) <= 1 THEN {sub}
    ELSE UNION {{<<c>> \o s : s \in tie_orders(RemoveOne(sub, c))} : c \in Range(sub)}

\* The lists [colorlist[i] for i in np.argsort(distancelist)] can be, for
\* the distances ds that occur: the colours at the least distance first, in
\* one of their orders, then those at the next distance, and so on.
RECURSIVE by_distance(_, _, _)
by_distance(colorlist, refcolor, ds) ==
    IF ds = {} THEN {<<>>}
    ELSE LET m == SetMin(ds)
             AtM(c) == get_distance(c, refcolor) = m
         IN  {a \o t : a \in tie_orders(SelectSeq(colorlist, AtM)),
                       t \in by_distance(colorlist, refcolor, ds \ {m})}

distancelist(colorlist, refcolor) ==
    [k \in 1..Len(colorlist) |-> get_distance(colorlist[k], refcolor)]

Reverse(s) == [k \in 1..Len(s) |-> s[Len(s) + 1 - k]]

sort_colorlist_desc(colorlist, refcolor) ==
    {Reverse(s) : s \in by_distance(colorlist, refcolor,
                                    Range(distancelist(colorlist, refcolor)))}

sort_colorlist(colorlist, refcolor) ==
    by_distance(colorlist, refcolor, Range(distancelist(colorlist, refcolor)))

\* PointArray.nbr_distance raises ValueError: min() of an empty list
nbr_distance_raises(o) ==
    \A k \in 1..Len(aspoint(o).nbrs) : aspoint(aspoint(o).nbrs[k]).color = None

nbr_distance(o, color) ==
    LET nbrcolors == {aspoint(aspoint(o).nbrs[k]).color : k \in 1..Len(aspoint(o).nbrs)}
                         \ {None}
    IN  SetMin({get_distance(nc, color) : nc \in nbrcolors})

-----------------------------------------------------------------------------
(* The local name colorlist: bound to the caller's list object until the   *)
(* function rebinds it to a list it created.                               *)

colorlist == IF colorlist_ref = "caller" THEN callerlist ELSE locallist

\* the ColorClass objects 1..n, each with a colour of the palette; as the
\* placements draw the seed colour at random and sort the rest, the lists
\* are given in palette order
ColorObjects(n) ==
    {f \in [1..n -> 1..Len(Palette)] : \A i \in 1..(n - 1) : f[i] <= f[i + 1]}

IdList(n) == [k \in 1..n |-> k]

-----------------------------------------------------------------------------
(* Values of the variables an entry point does not use.                    *)

NoColors ==
    /\ rgb = <<>>
    /\ given = <<>>
    /\ callerlist = <<>>
    /\ locallist = <<>>
    /\ colorlist_ref = "caller"
    /\ c0 = None

NoPlacement ==
    /\ p0 = 0
    /\ filled = {}
    /\ unfilled = {}
    /\ boundary_list = <<>>
    /\ boundary_set = {}

NoAnimation ==
    /\ shuffle_colors = FALSE
    /\ maxiters = <<>>
    /\ iters = 0
    /\ frames = 0

NoQuery ==
    /\ ptindex = 0
    /\ coords = <<0, 0>>

-----------------------------------------------------------------------------
(* The grid on its own: PointArray construction and the coordinate mapper. *)

InitGrid ==
    /\ alg = "grid"
    /\ \E w \in 1..MaxWidth, h \in 1..MaxHeight : converter = ShapeConverter(w, h)
    /\ nbrhood_type \in {"ALL", "CROSS"}
    /\ pointlist = PointArray(converter, nbrhood_type)
    /\ NoColors /\ NoPlacement /\ NoAnimation /\ NoQuery
    /\ pc = "built"
    /\ err = ""

\* a call converter.index_to_coords(i), in range or one off it
IndexToCoords ==
    /\ alg = "grid"
    /\ \E i \in -1..converter.N :
          /\ ptindex' = i
          /\ IF index_to_coords_raises(converter, i)
             THEN /\ err' = "index out of range"
                  /\ pc' = "raised"
                  /\ UNCHANGED coords
             ELSE /\ coords' = index_to_coords(converter, i)
                  /\ err' = ""
                  /\ pc' = "index_to_coords"
    /\ UNCHANGED <<alg, converter, nbrhood_type, pointlist, rgb, given, callerlist,
                   locallist, colorlist_ref, p0, c0, filled, unfilled,
                   boundary_list, boundary_set, shuffle_colors, maxiters,
                   iters, frames>>

\* a call converter.coords_to_index((col, row)), in range or one off it
CoordsToIndex ==
    /\ alg = "grid"
    /\ \E col \in -1..converter.WIDTH, row \in -1..converter.HEIGHT :
          /\ coords' = <<col, row>>
          /\ IF coords_to_index_raises(converter, <<col, row>>)
             THEN /\ err' = IF (col < 0) \/ (col >= converter.WIDTH)
                            THEN "column coordinate out of range"
                            ELSE "row coordinate out of range"
                  /\ pc' = "raised"
                  /\ UNCHANGED ptindex
             ELSE /\ ptindex' = coords_to_index(converter, <<col, row>>)
                  /\ err' = ""
                  /\ pc' = "coords_to_index"
    /\ UNCHANGED <<alg, converter, nbrhood_type, pointlist, rgb, given, callerlist,
                   locallist, colorlist_ref, p0, c0, filled, unfilled,
                   boundary_list, boundary_set, shuffle_colors, maxiters,
                   iters, frames>>

NextGrid == IndexToCoords \/ CoordsToIndex

SpecGrid == InitGrid /\ [][NextGrid]_vars

-----------------------------------------------------------------------------
(* Claims about the grid.                                                  *)

\* C6: index_to_coords and coords_to_index are mutual inverses on the grid:
\* whenever one of them has just answered an in-range input, the other one
\* accepts the answer and gives the input back; in-range inputs never raise.
C6_MapperInverse ==
    /\ (pc = "index_to_coords" =>
           /\ ~coords_to_index_raises(converter, coords)
           /\ coords_to_index(converter, coords) = ptindex)
    /\ (pc = "coords_to_index" =>
           /\ ~index_to_coords_raises(converter, ptindex)
           /\ index_to_coords(converter, ptindex) = coords)
    /\ (pc = "raised" =>
           \/ ptindex \notin 0..(converter.N - 1)
           \/ coords[1] \notin 0..(converter.WIDTH - 1)
           \/ coords[2] \notin 0..(converter.HEIGHT - 1))

C6_Witness ==
    /\ pc = "coords_to_index"
    /\ coords[1] > 0
    /\ coords[2] > 1
    /\ converter.WIDTH # converter.HEIGHT

NbrCount(p) == Len(pointlist[p].nbrs)

\* C7 as stated: every neighbour list has between 3 and 8 entries, on every
\* grid and under both topologies.
C7_ThreeToEight ==
    \A p \in DOMAIN pointlist : NbrCount(p) >= 3 /\ NbrCount(p) <= 8

\* C7 as amended: a neighbour list has at most 8 entries under ALL and at
\* most 4 under CROSS; on a grid with WIDTH >= 2 and HEIGHT >= 2 it has at
\* least 3 entries under ALL and at least 2 under CROSS.  A grid one cell wide
\* or high has shorter lists, down to the empty list of the 1 x 1 grid.
C7_NbrCount ==
    \A p \in DOMAIN pointlist :
        /\ nbrhood_type = "ALL" => NbrCount(p) <= 8
        /\ nbrhood_type = "CROSS" => NbrCount(p) <= 4
        /\ (converter.WIDTH >= 2 /\ converter.HEIGHT >= 2) =>
               /\ nbrhood_type = "ALL" => NbrCount(p) >= 3
               /\ nbrhood_type = "CROSS" => NbrCount(p) >= 2

C7_Witness ==
    /\ nbrhood_type = "CROSS"
    /\ \E p \in DOMAIN pointlist : NbrCount(p) = 4
    /\ \E p \in DOMAIN pointlist : NbrCount(p) = 2

\* C8: under ALL every neighbour-list entry is a point index of the grid
\* other than the point itself, and q is in p's list iff p is in q's list.
C8_AllSymmetric ==
    nbrhood_type = "ALL" =>
        /\ \A p \in DOMAIN pointlist :
               \A k \in 1..NbrCount(p) :
                   /\ pointlist[p].nbrs[k] \in 0..(converter.N - 1)
                   /\ pointlist[p].nbrs[k] # p
        /\ \A p, q \in DOMAIN pointlist :
               (q \in Range(pointlist[p].nbrs)) <=> (p \in Range(pointlist[q].nbrs))

C8_Witness ==
    /\ nbrhood_type = "ALL"
    /\ \E p \in DOMAIN pointlist : NbrCount(p) = 8
    /\ \E p \in DOMAIN pointlist : NbrCount(p) = 3
    /\ \E p \in DOMAIN pointlist : NbrCount(p) = 5

-----------------------------------------------------------------------------
(* sort_colorlist on its own: a list of distinct ColorClass objects and a  *)
(* reference colour, in the list or not.                                   *)

InitSort ==
    /\ alg = "sort"
    /\ converter = ShapeConverter(1, 1)
    /\ nbrhood_type = "ALL"
    /\ pointlist = PointArray(converter, nbrhood_type)
    /\ \E n \in 0..MaxSortLen :
          /\ \E f \in [1..(n + 1) -> 1..Len(Palette)] :
                rgb = [i \in 1..(n + 1) |-> Palette[f[i]]]
          /\ callerlist = IdList(n)
          /\ given = callerlist
          /\ c0 \in 1..(n + 1)
    /\ locallist = <<>>
    /\ colorlist_ref = "caller"
    /\ NoPlacement /\ NoAnimation /\ NoQuery
    /\ pc = "call"
    /\ err = ""

\* sorted = sort_colorlist(colorlist, c0)
SortColorlist ==
    /\ alg = "sort"
    /\ pc = "call"
    /\ locallist' \in sort_colorlist(callerlist, c0)
    /\ pc' = "sorted"
    /\ UNCHANGED <<alg, converter, nbrhood_type, pointlist, rgb, given, callerlist,
                   colorlist_ref, p0, c0, filled, unfilled, boundary_list,
                   boundary_set, shuffle_colors, maxiters, iters, frames,
                   ptindex, coords, err>>

NextSort == SortColorlist

SpecSort == InitSort /\ [][NextSort]_vars

\* the position of x in the duplicate-free list s
IndexOf(s, x) == CHOOSE k \in 1..Len(s) : s[k] = x

IsPermutationOf(s, t) ==
    /\ Len(s) = Len(t)
    /\ \A x \in Range(s) \cup Range(t) : Count(s, x) = Count(t, x)

NonDecreasing(s, ref) ==
    \A k \in 1..(Len(s) - 1) : get_distance(s[k], ref) <= get_distance(s[k + 1], ref)

\* C9 as stated: the result is a permutation of the input in non-decreasing
\* distance to the reference, and elements at equal distance keep the
\* relative order they had in the input.
C9_StableSort ==
    pc = "sorted" =>
        /\ IsPermutationOf(locallist, callerlist)
        /\ NonDecreasing(locallist, c0)
        /\ \A i, j \in 1..Len(locallist) :
               (i < j /\ get_distance(locallist[i], c0) = get_distance(locallist[j], c0))
                   => IndexOf(callerlist, locallist[i]) < IndexOf(callerlist, locallist[j])

\* C9 as amended: the result is a permutation of the input whose distances to
\* the reference are non-decreasing; the order of elements at equal distance
\* is not fixed.
C9_SortedPermutation ==
    pc = "sorted" =>
        /\ IsPermutationOf(locallist, callerlist)
        /\ NonDecreasing(locallist, c0)

C9_Witness ==
    /\ pc = "sorted"
    /\ Len(locallist) = 3
    /\ locallist # callerlist
    /\ get_distance(locallist[1], c0) = get_distance(locallist[2], c0)
    /\ get_distance(locallist[2], c0) < get_distance(locallist[3], c0)

-----------------------------------------------------------------------------
(* nearcolors.py: _generate, the greedy placement, on an ALL grid with a   *)
(* colour list of exactly N objects.                                       *)

GridSizes(maxwidth) ==
    {wh \in (1..maxwidth) \X (1..MaxPlaceHeight) : wh[1] * wh[2] <= MaxPoints}

\* d stands in for np.Infinity: larger than any distance between two colours
Infinity == 195076

\* best = None
NoPoint == -1

\* s without its k-th element
RemoveAt(s, k) == [j \in 1..(Len(s) - 1) |-> IF j < k THEN s[j] ELSE s[j + 1]]

\* ptarray.aspoint(p).color = c
SetColor(pl, p, c) == [pl EXCEPT ![p].color = c]

\* for b in boundary_0: ptarray.aspoint(b).color = colorlist.pop(0)
RECURSIVE FillFrom(_, _, _)
FillFrom(pl, pts, cols) ==
    IF pts = <<>> THEN pl
    ELSE FillFrom(SetColor(pl, Head(pts), Head(cols)), Tail(pts), Tail(cols))

closer_or_equal(d, mindist) == d <= mindist

\* if d < mindist
closer(d, mindist) == d < mindist

\* the scan for b in boundary_list, from position k on, with the mindist
\* and best found so far
RECURSIVE best_scan(_, _, _, _, _)
best_scan(blist, color, k, mindist, best) ==
    IF k > Len(blist) THEN best
    ELSE LET d == nbr_distance(blist[k], color)
         IN  IF closer(d, mindist)
             THEN best_scan(blist, color, k + 1, d, blist[k])
             ELSE best_scan(blist, color, k + 1, mindist, best)

boundary_update_keeps_filled(bset, best, nowfilled) == bset \cup Range(aspoint(best).nbrs)

\* boundary_set.update(nbrs of best); boundary_set = boundary_set.difference(filled)
boundary_update(bset, best, nowfilled) ==
    (bset \cup Range(aspoint(best).nbrs)) \ nowfilled

boundary_relist_front(blist, bset, fresh) == fresh \o Filter(blist, bset)

\* boundary_list = [b for b in boundary_list if b in boundary_set]
\*                     + [b for b in boundary_set if b not in set(boundary_list)]
\* with fresh the second comprehension, in the order the set yields it
boundary_relist(blist, bset, fresh) == Filter(blist, bset) \o fresh

\* larger grids, placed with one list of colours that all differ
LadderGrids == {<<4, 2>>, <<3, 3>>}

\* n colours (0,0,0), (1,0,0), (3,0,0), (7,0,0), ...: no two pairs of them are
\* at the same distance, so their sorted order is unique
Ladder(n) == [i \in 1..n |-> <<2^(i - 1) - 1, 0, 0>>]

\* the colour lists the greedy placement is run with on a grid of n points
GreedyColors(n) ==
    IF n <= MaxPoints
    THEN {[i \in 1..n |-> Palette[f[i]]] : f \in ColorObjects(n)}
    ELSE {Ladder(n)}

InitGreedy ==
    /\ alg = "greedy"
    /\ \E wh \in GridSizes(MaxGreedyWidth) \cup LadderGrids :
          converter = ShapeConverter(wh[1], wh[2])
    /\ nbrhood_type = "ALL"
    /\ pointlist = PointArray(converter, nbrhood_type)
    /\ rgb \in GreedyColors(converter.N)
    /\ callerlist = IdList(converter.N)
    /\ given = callerlist
    /\ locallist = <<>>
    /\ colorlist_ref = "caller"
    /\ c0 = None
    /\ NoPlacement /\ NoAnimation /\ NoQuery
    /\ pc = "start"
    /\ err = ""

\* Lines 27-57.  rng.permutation puts any object first and the others in any
\* order; the first is popped and the others go through sort_colorlist, whose
\* results do not depend on the order they come in.
GreedyStart ==
    /\ alg = "greedy"
    /\ pc = "start"
    /\ \E seed \in 0..(converter.N - 1), first \in 1..Len(colorlist) :
          LET seedcolor == colorlist[first]
              boundary_0 == aspoint(seed).nbrs
              nowfilled == Range(boundary_0) \cup {seed}
              reached == UNION {Range(aspoint(f).nbrs) : f \in nowfilled}
          IN  /\ p0' = seed
              /\ c0' = seedcolor
              /\ colorlist_ref' = "local"
              /\ \E sorted \in sort_colorlist(RemoveAt(colorlist, first), seedcolor) :
                    IF Len(boundary_0) > Len(sorted)
                    THEN \* pop from empty list
                         /\ locallist' = <<>>
                         /\ pointlist' = SetColor(pointlist, seed, seedcolor)
                         /\ pc' = "raised"
                         /\ err' = "IndexError"
                         /\ UNCHANGED <<filled, boundary_list, boundary_set>>
                    ELSE /\ locallist' = Drop(sorted, Len(boundary_0))
                         /\ pointlist' = FillFrom(SetColor(pointlist, seed, seedcolor),
                                                  boundary_0, sorted)
                         /\ filled' = nowfilled
                         /\ boundary_list' \in SetOrders(reached \ nowfilled)
                         /\ boundary_set' = Range(boundary_list')
                         /\ pc' = "loop"
                         /\ err' = ""
    /\ UNCHANGED <<alg, converter, nbrhood_type, rgb, given, callerlist, unfilled,
                   shuffle_colors, maxiters, iters, frames, ptindex, coords>>

\* Lines 59-84: one iteration of the main loop.
GreedyLoop ==
    /\ alg = "greedy"
    /\ pc = "loop"
    /\ Len(colorlist) > 0
    /\ LET color == Head(colorlist)
           rest == Tail(colorlist)
           best == best_scan(boundary_list, color, 1, Infinity, NoPoint)
           nowfilled == filled \cup {best}
           newset == boundary_update(boundary_set, best, nowfilled)
       IN  /\ locallist' = rest
           /\ IF \E k \in 1..Len(boundary_list) : nbr_distance_raises(boundary_list[k])
              THEN \* min() of an empty list in nbr_distance
                   /\ pc' = "raised"
                   /\ err' = "ValueError"
                   /\ UNCHANGED <<pointlist, filled, boundary_list, boundary_set>>
              ELSE IF best = NoPoint \/ aspoint(best).color # None
              THEN /\ pc' = "raised"
                   /\ err' = "AssertionError"
                   /\ UNCHANGED <<pointlist, filled, boundary_list, boundary_set>>
              ELSE /\ pointlist' = SetColor(pointlist, best, color)
                   /\ filled' = nowfilled
                   /\ boundary_set' = newset
                   /\ \E fresh \in SetOrders(newset \ Range(boundary_list)) :
                         boundary_list' = boundary_relist(boundary_list, newset, fresh)
                   /\ IF Cardinality(nowfilled) = converter.N - Len(rest)
                      THEN pc' = "loop" /\ err' = ""
                      ELSE pc' = "raised" /\ err' = "AssertionError"
    /\ UNCHANGED <<alg, converter, nbrhood_type, rgb, given, callerlist, colorlist_ref,
                   p0, c0, unfilled, shuffle_colors, maxiters, iters, frames,
                   ptindex, coords>>

\* Lines 86-90: the loop has ended; the check for blanks, then the image.
GreedyFinish ==
    /\ alg = "greedy"
    /\ pc = "loop"
    /\ Len(colorlist) = 0
    /\ IF blanks = {}
       THEN pc' = "done" /\ err' = ""
       ELSE pc' = "raised" /\ err' = "AssertionError"
    /\ UNCHANGED <<alg, converter, nbrhood_type, pointlist, rgb, given, callerlist,
                   locallist, colorlist_ref, p0, c0, filled, unfilled,
                   boundary_list, boundary_set, shuffle_colors, maxiters,
                   iters, frames, ptindex, coords>>

NextGreedy == GreedyStart \/ GreedyLoop \/ GreedyFinish

SpecGreedy == InitGreedy /\ [][NextGreedy]_vars

\* the points that hold colour object e
PointsWith(e) == {p \in DOMAIN pointlist : pointlist[p].color = e}

\* every point holds a colour and every object of the input list is on
\* exactly one point
PlacedExactlyOnce ==
    /\ blanks = {}
    /\ \A e \in DOMAIN rgb : Cardinality(PointsWith(e)) = 1

\* C1: the greedy run never fails an assertion (nor raises), and when it is
\* done every point holds a colour and every input colour object is on exactly
\* one point.
C1_GreedyPlacesAll ==
    alg = "greedy" =>
        /\ err = ""
        /\ pc # "raised"
        /\ pc = "done" => PlacedExactlyOnce

C1_Witness ==
    /\ alg = "greedy"
    /\ pc = "done"
    /\ converter.WIDTH = 3
    /\ converter.HEIGHT = 2
    /\ NbrCount(p0) = 3
    /\ rgb[1] = rgb[2]
    /\ rgb[1] # rgb[6]

\* C10: an iteration of the greedy main loop gives the popped colour to the
\* boundary point of least neighbour-min-distance, the earliest such point of
\* the boundary list; that point had no colour, and no other point changes.
C10_GreedySelection ==
    [][(alg = "greedy" /\ pc = "loop" /\ Len(colorlist) > 0) =>
          LET color == Head(colorlist)
              changed == {p \in DOMAIN pointlist : pointlist'[p] # pointlist[p]}
          IN  \E k \in 1..Len(boundary_list) :
                 LET b == boundary_list[k]
                 IN  /\ changed = {b}
                     /\ pointlist[b].color = None
                     /\ pointlist'[b].color = color
                     /\ \A j \in 1..Len(boundary_list) :
                            nbr_distance(boundary_list[j], color) >= nbr_distance(b, color)
                     /\ \A j \in 1..(k - 1) :
                            nbr_distance(boundary_list[j], color) > nbr_distance(b, color)
      ]_vars

\* the least distance from colour c to the coloured neighbours of p other
\* than point b
DistanceWithout(p, c, b) ==
    SetMin({get_distance(pointlist[q].color, c) :
               q \in {n \in Range(pointlist[p].nbrs) \ {b} : pointlist[n].color # None}})

\* the main loop has run once and coloured point b, while a point u that is
\* still on the boundary was on it then and tied with b at the least
\* neighbour-min-distance
C10_Witness ==
    /\ alg = "greedy"
    /\ pc = "loop"
    /\ Cardinality(filled) = NbrCount(p0) + 2
    /\ Len(boundary_list) >= 1
    /\ \E b \in filled \ ({p0} \cup Range(pointlist[p0].nbrs)) :
          LET u == boundary_list[1]
              c == pointlist[b].color
          IN  /\ \E n \in Range(pointlist[u].nbrs) \ {b} : pointlist[n].color # None
              /\ DistanceWithout(b, c, b) = DistanceWithout(u, c, b)

\* the uncoloured points that have at least one coloured neighbour
AdjacentUncoloured ==
    {p \in DOMAIN pointlist :
        /\ pointlist[p].color = None
        /\ \E n \in Range(pointlist[p].nbrs) : pointlist[n].color # None}

NoDuplicates(s) == \A i, j \in 1..Len(s) : s[i] = s[j] => i = j

\* C11: whenever the greedy run stands at the head of its main loop, the
\* boundary list holds, each once, exactly the uncoloured points with a
\* coloured neighbour, and it is not empty while colours remain; no iteration
\* asks nbr_distance about a point without coloured neighbours; and an
\* iteration's update keeps the old entries other than the point it coloured
\* in their order and appends the points that became adjacent after them.
C11_GreedyBoundary ==
    [][alg = "greedy" =>
          /\ pc' = "loop" =>
                 /\ NoDuplicates(boundary_list')
                 /\ Range(boundary_list') = AdjacentUncoloured'
                 /\ Len(colorlist') > 0 => boundary_list' # <<>>
          /\ (pc = "loop" /\ Len(colorlist) > 0) =>
                 /\ err' # "ValueError"
                 /\ \A k \in 1..Len(boundary_list) :
                        ~nbr_distance_raises(boundary_list[k])
                 /\ LET coloured == {p \in DOMAIN pointlist :
                                        pointlist'[p].color # pointlist[p].color}
                        kept == Filter(boundary_list, Range(boundary_list) \ coloured)
                    IN  /\ Len(boundary_list') >= Len(kept)
                        /\ SubSeq(boundary_list', 1, Len(kept)) = kept
                        /\ \A k \in (Len(kept) + 1)..Len(boundary_list') :
                               /\ boundary_list'[k] \notin Range(boundary_list)
                               /\ \E b \in coloured :
                                      boundary_list'[k] \in Range(pointlist[b].nbrs)
      ]_vars

\* the points coloured before the main loop: the seed point and its neighbours
Bootstrap == {p0} \cup Range(pointlist[p0].nbrs)

\* one iteration has run; the boundary list starts with a point that was
\* adjacent to the bootstrap block, an old entry that survived, and ends with
\* two points whose only coloured neighbours the iteration coloured, the newly
\* adjacent ones
C11_Witness ==
    /\ alg = "greedy"
    /\ pc = "loop"
    /\ Cardinality(filled) = Cardinality(Bootstrap) + 1
    /\ Len(boundary_list) >= 3
    /\ Range(pointlist[boundary_list[1]].nbrs) \cap Bootstrap # {}
    /\ \A k \in 2..Len(boundary_list) :
          Range(pointlist[boundary_list[k]].nbrs) \cap Bootstrap = {}

-----------------------------------------------------------------------------
(* randomwalk.py: _generate, the random-walk placement, on a CROSS grid    *)
(* with a colour list of exactly N objects.                                *)

walk_choices_any(p) == Range(aspoint(p).nbrs)

\* choices = set(ptarray.aspoint(p0).nbrs).difference(filled)
walk_choices(p) == Range(aspoint(p).nbrs) \ filled

InitWalk ==
    /\ alg = "walk"
    /\ \E wh \in GridSizes(MaxWalkWidth) : converter = ShapeConverter(wh[1], wh[2])
    /\ nbrhood_type = "CROSS"
    /\ pointlist = PointArray(converter, nbrhood_type)
    /\ \E f \in ColorObjects(converter.N) :
          rgb = [i \in 1..converter.N |-> Palette[f[i]]]
    /\ callerlist = IdList(converter.N)
    /\ given = callerlist
    /\ locallist = <<>>
    /\ colorlist_ref = "caller"
    /\ c0 = None
    /\ NoPlacement /\ NoAnimation /\ NoQuery
    /\ pc = "start"
    /\ err = ""

\* Lines 27-47.  ColorClass defines no __eq__: c0 == colorlist[0] compares
\* the two objects' identities.
WalkStart ==
    /\ alg = "walk"
    /\ pc = "start"
    /\ \E seed \in 0..(converter.N - 1), seedcolor \in Range(colorlist) :
          /\ p0' = seed
          /\ c0' = seedcolor
          /\ colorlist_ref' = "local"
          /\ \E sorted \in sort_colorlist(colorlist, seedcolor) :
                IF seedcolor # sorted[1]
                THEN /\ locallist' = sorted
                     /\ filled' = {}
                     /\ unfilled' = 0..(converter.N - 1)
                     /\ pc' = "raised"
                     /\ err' = "AssertionError"
                     /\ UNCHANGED pointlist
                ELSE /\ locallist' = Tail(sorted)
                     /\ pointlist' = SetColor(pointlist, seed, sorted[1])
                     /\ filled' = {seed}
                     /\ unfilled' = (0..(converter.N - 1)) \ {seed}
                     /\ pc' = "loop"
                     /\ err' = ""
    /\ UNCHANGED <<alg, converter, nbrhood_type, rgb, given, callerlist,
                   boundary_list, boundary_set, shuffle_colors, maxiters,
                   iters, frames, ptindex, coords>>

\* Lines 51-59 and 69: an iteration that finds an unfilled neighbour.
WalkStep ==
    /\ alg = "walk"
    /\ pc = "loop"
    /\ Len(colorlist) > 0
    /\ walk_choices(p0) # {}
    /\ \E pnext \in walk_choices(p0) :
          /\ pointlist' = SetColor(pointlist, pnext, Head(colorlist))
          /\ locallist' = Tail(colorlist)
          /\ filled' = filled \cup {pnext}
          /\ IF pnext \notin unfilled
             THEN \* unfilled.remove(pnext)
                  /\ pc' = "raised"
                  /\ err' = "KeyError"
                  /\ UNCHANGED <<unfilled, p0>>
             ELSE /\ unfilled' = unfilled \ {pnext}
                  /\ p0' = pnext
                  /\ IF Cardinality(unfilled') = Len(locallist')
                     THEN pc' = "loop" /\ err' = ""
                     ELSE pc' = "raised" /\ err' = "AssertionError"
    /\ UNCHANGED <<alg, converter, nbrhood_type, rgb, given, callerlist,
                   colorlist_ref, c0, boundary_list, boundary_set,
                   shuffle_colors, maxiters, iters, frames, ptindex, coords>>

\* Lines 51-53 and 60-69: an iteration at a dead end.
WalkReseed ==
    /\ alg = "walk"
    /\ pc = "loop"
    /\ Len(colorlist) > 0
    /\ walk_choices(p0) = {}
    /\ IF unfilled = {}
       THEN \* rng.choice of an empty list
            /\ pc' = "raised"
            /\ err' = "ValueError"
            /\ UNCHANGED <<pointlist, locallist, filled, unfilled, p0, c0>>
       ELSE \E pnew \in unfilled, seedcolor \in Range(colorlist) :
               /\ p0' = pnew
               /\ c0' = seedcolor
               /\ \E sorted \in sort_colorlist(colorlist, seedcolor) :
                     /\ pointlist' = SetColor(pointlist, pnew, sorted[1])
                     /\ locallist' = Tail(sorted)
               /\ filled' = filled \cup {pnew}
               /\ unfilled' = unfilled \ {pnew}
               /\ IF Cardinality(unfilled') = Len(locallist')
                  THEN pc' = "loop" /\ err' = ""
                  ELSE pc' = "raised" /\ err' = "AssertionError"
    /\ UNCHANGED <<alg, converter, nbrhood_type, rgb, given, callerlist,
                   colorlist_ref, boundary_list, boundary_set,
                   shuffle_colors, maxiters, iters, frames, ptindex, coords>>

\* Lines 71-75: the loop has ended; the check for blanks, then the image.
WalkFinish ==
    /\ alg = "walk"
    /\ pc = "loop"
    /\ Len(colorlist) = 0
    /\ IF blanks = {}
       THEN pc' = "done" /\ err' = ""
       ELSE pc' = "raised" /\ err' = "AssertionError"
    /\ UNCHANGED <<alg, converter, nbrhood_type, pointlist, rgb, given, callerlist,
                   locallist, colorlist_ref, p0, c0, filled, unfilled,
                   boundary_list, boundary_set, shuffle_colors, maxiters,
                   iters, frames, ptindex, coords>>

NextWalk == WalkStart \/ WalkStep \/ WalkReseed \/ WalkFinish

SpecWalk == InitWalk /\ [][NextWalk]_vars

\* C2: the random-walk run never fails an assertion (the check that the drawn
\* seed colour heads the re-sorted list, the check |unfilled| = |colours left|,
\* the check for blanks), also with duplicate colours in the list, and when it
\* is done no point is uncoloured and every input colour object is on exactly
\* one point.
C2_WalkPlacesAll ==
    alg = "walk" =>
        /\ err = ""
        /\ pc # "raised"
        /\ pc = "loop" => Cardinality(unfilled) = Len(colorlist)
        /\ pc = "done" => PlacedExactlyOnce

\* the uncoloured neighbours of point p
FreeNbrs(p) == {q \in Range(pointlist[p].nbrs) : pointlist[q].color = None}

\* C3: an iteration of the random-walk loop colours exactly one point, which
\* had no colour: an uncoloured neighbour of the current point if there is
\* one, and only at a dead end some other uncoloured point; no coloured point
\* changes.
C3_WalkStep ==
    [][(alg = "walk" /\ pc = "loop" /\ Len(colorlist) > 0) =>
          LET changed == {p \in DOMAIN pointlist : pointlist'[p] # pointlist[p]}
          IN  \E q \in DOMAIN pointlist :
                 /\ changed = {q}
                 /\ pointlist[q].color = None
                 /\ pointlist'[q].color # None
                 /\ FreeNbrs(p0) # {} => q \in FreeNbrs(p0)
                 /\ FreeNbrs(p0) = {} => q \in blanks
                 /\ p0' = q
      ]_vars

\* the walk has re-seeded: the current point has no coloured neighbour, so it
\* was not reached from a neighbour, and a coloured point is a dead end
C3_Witness ==
    /\ alg = "walk"
    /\ pc = "loop"
    /\ Cardinality(filled) >= 3
    /\ NbrCount(p0) >= 1
    /\ FreeNbrs(p0) = Range(pointlist[p0].nbrs)
    /\ \E q \in filled : NbrCount(q) >= 1 /\ FreeNbrs(q) = {}

-----------------------------------------------------------------------------
(* randomwalk_animation.py: randomwalk, the self-crossing walk.  frames    *)
(* counts the images appended to the list frames.                          *)

\* the longest colour list walked
MaxAnimLen == 201

\* if iters % 100 == 0
SnapshotEvery == 100

AnimSizes == {1, 2}

AnimLens == {0, 2, SnapshotEvery, SnapshotEvery + 1, MaxAnimLen}

\* maxiters: None, or a number of steps
AnimMaxiters ==
    {<<>>} \cup {<<n>> : n \in {-1, 0, 1, SnapshotEvery, SnapshotEvery + 1,
                               SnapshotEvery + 50, MaxAnimLen, MaxAnimLen + 49}}

\* a list of n entries that holds k colour objects in turn (a Python list can
\* hold an object more than once)
TurnList(n, k) == [i \in 1..n |-> ((i - 1) % k) + 1]

snapshot_due_late(i) == (i + 1) % SnapshotEvery = 0

snapshot_due(i) == i % SnapshotEvery = 0

\* the loop condition (iters < maxiters) & (len(colorlist) > 0)
anim_continues == (iters < maxiters[1]) /\ (Len(colorlist) > 0)

InitAnim ==
    /\ alg = "anim"
    /\ \E size \in AnimSizes : converter = ShapeConverter(size, size)
    /\ nbrhood_type = "CROSS"
    /\ pointlist = PointArray(converter, nbrhood_type)
    /\ rgb = <<Palette[1], Palette[2]>>
    /\ \E n \in AnimLens, k \in 1..2 : callerlist = TurnList(n, k)
    /\ given = callerlist
    /\ locallist = <<>>
    /\ colorlist_ref = "caller"
    /\ c0 = None
    /\ NoPlacement /\ NoQuery
    /\ shuffle_colors \in BOOLEAN
    /\ maxiters \in AnimMaxiters
    /\ iters = 0
    /\ frames = 0
    /\ pc = "start"
    /\ err = ""

\* Lines 40-57.  With shuffle_colors the name colorlist is rebound to the new
\* list sort_colorlist returns; without it the name stays bound to the
\* caller's list.
AnimStart ==
    /\ alg = "anim"
    /\ pc = "start"
    /\ p0' \in 0..(converter.N - 1)
    /\ IF colorlist = <<>>
       THEN \* rng.choice of an empty list, or colorlist[0] of one
            /\ pc' = "raised"
            /\ err' = IF shuffle_colors THEN "ValueError" ELSE "IndexError"
            /\ UNCHANGED <<c0, locallist, colorlist_ref, maxiters>>
       ELSE /\ IF shuffle_colors
               THEN \E seedcolor \in Range(colorlist) :
                       /\ c0' = seedcolor
                       /\ locallist' \in sort_colorlist(colorlist, seedcolor)
                       /\ colorlist_ref' = "local"
               ELSE /\ c0' = colorlist[1]
                    /\ UNCHANGED <<locallist, colorlist_ref>>
            /\ maxiters' = IF maxiters = <<>> THEN <<Len(colorlist)>> ELSE maxiters
            /\ pc' = "loop"
            /\ err' = ""
    /\ UNCHANGED <<alg, converter, nbrhood_type, pointlist, rgb, given, callerlist,
                   filled, unfilled, boundary_list, boundary_set,
                   shuffle_colors, iters, frames, ptindex, coords>>

\* Lines 58-63: one step of the walk.  colorlist.pop(0) takes the first
\* element off the list object the name is bound to.
AnimLoop ==
    /\ alg = "anim"
    /\ pc = "loop"
    /\ anim_continues
    /\ pointlist' = SetColor(pointlist, p0, Head(colorlist))
    /\ IF colorlist_ref = "caller"
       THEN callerlist' = Tail(callerlist) /\ UNCHANGED locallist
       ELSE locallist' = Tail(locallist) /\ UNCHANGED callerlist
    /\ frames' = IF snapshot_due(iters) THEN frames + 1 ELSE frames
    /\ IF aspoint(p0).nbrs = <<>>
       THEN \* rng.choice of an empty list
            /\ pc' = "raised"
            /\ err' = "ValueError"
            /\ UNCHANGED <<p0, iters>>
       ELSE /\ p0' \in Range(aspoint(p0).nbrs)
            /\ iters' = iters + 1
            /\ UNCHANGED <<pc, err>>
    /\ UNCHANGED <<alg, converter, nbrhood_type, rgb, given, colorlist_ref, c0,
                   filled, unfilled, boundary_list, boundary_set,
                   shuffle_colors, maxiters, ptindex, coords>>

\* Lines 65-68: the final frame, the gif, the return.
AnimFinish ==
    /\ alg = "anim"
    /\ pc = "loop"
    /\ ~anim_continues
    /\ frames' = frames + 1
    /\ pc' = "done"
    /\ UNCHANGED <<alg, converter, nbrhood_type, pointlist, rgb, given, callerlist,
                   locallist, colorlist_ref, p0, c0, filled, unfilled,
                   boundary_list, boundary_set, shuffle_colors, maxiters,
                   iters, ptindex, coords, err>>

NextAnim == AnimStart \/ AnimLoop \/ AnimFinish

SpecAnim == InitAnim /\ [][NextAnim]_vars

\* the least integer not below a / b, for b > 0
CeilDiv(a, b) == -((-a) \div b)

\* C4 as stated: the animation has ceil(max_steps / 100) + 1 frames, for
\* every colour list and every max_steps.
C4_FramesByMaxSteps ==
    (alg = "anim" /\ pc = "done") =>
        frames = CeilDiv(maxiters[1], SnapshotEvery) + 1

\* C4 as amended: the animation of a run that completes has ceil(s / 100) + 1
\* frames, where s = max(0, min(max_steps, len(colour list))) is the number of
\* steps walked (max_steps = None stands for len(colour list)): the walk also
\* stops when the colours run out.
C4_FramesBySteps ==
    (alg = "anim" /\ pc = "done") =>
        LET s == Max2(0, Min2(maxiters[1], Len(given)))
        IN  /\ iters = s
            /\ frames = CeilDiv(s, SnapshotEvery) + 1

C4_Witness ==
    /\ alg = "anim"
    /\ pc = "done"
    /\ maxiters[1] > Len(given)
    /\ iters > 2 * SnapshotEvery
    /\ frames = 4

\* C5: no placement entry point changes the colour list the caller passed
\* in: at every moment the caller's list holds what it held when the call
\* began.
C5_CallerListKept == callerlist = given

====
